---- MODULE Spec2Model ----
(***************************************************************************)
(* Model of the notebook 0_save-training-data.ipynb: the vocabulary        *)
(* builder make_type_lookup_tables, the record encoder                     *)
(* convert_mol_to_dict, the two train_test_split calls and the loop that   *)
(* writes the three partition files.                                       *)
(*                                                                         *)
(* Conventions.  Atom indices and vocabulary indices keep Python's 0-based *)
(* values; TLA+ sequences are 1-based, so the Python list element l[i] is  *)
(* l[i + 1] here.  A molecule is [atoms, bonds]: atoms is the sequence of  *)
(* atomic numbers in atom-index order, bonds the sequence of               *)
(* <<begin, end, type>> in GetBonds() order.  A bond type is the integer   *)
(* value of the RDKit BondType enumeration, which is what sorted() orders  *)
(* it by.                                                                  *)
(***************************************************************************)
EXTENDS Integers, Sequences, FiniteSets, TLC

VARIABLES pc, data, atom_types, bond_types, mol, example, dict,
          train_data, valid_data, test_data, files, part

vars == <<pc, data, atom_types, bond_types, mol, example, dict,
          train_data, valid_data, test_data, files, part>>

\* ------------------------------------------------------------------ bounds
MaxAtoms == 3
MaxBonds == 2
MaxCorpus == 3

\* The size of the QM9 subset the notebook loads.
CorpusSize == 25000

\* ------------------------------------------------- bond types and elements
SINGLE == 1
DOUBLE == 2
TRIPLE == 3

Elements == {1, 6}
BondCats == {SINGLE, DOUBLE}

\* ------------------------------------------------------- bounded molecules
AtomIdx(n) == 0 .. (n - 1)

BondTriples(n) ==
  {<<a, b, t>> : a \in AtomIdx(n), b \in AtomIdx(n), t \in BondCats} \
  {<<a, a, t>> : a \in AtomIdx(n), t \in BondCats}

\* RDKit keeps at most one bond between two atoms and no self-bond.
BondSeqs(n, k) ==
  {s \in [1 .. k -> BondTriples(n)] :
     \A i \in 1 .. k : \A j \in 1 .. k :
        i < j => {s[i][1], s[i][2]} # {s[j][1], s[j][2]}}

\* ------------------------------------------------------------ Python lists
Contains(list, x) == \E i \in 1 .. Len(list) : list[i] = x

\* An off-by-one index: the 1-based position instead of Python's 0-based one.
ListIndexOneBased(list, x) ==
  CHOOSE i \in 1 .. Len(list) :
     list[i] = x /\ \A j \in 1 .. (i - 1) : list[j] # x

\* list.index(x) where x is in the list: the first position holding x.
ListIndex(list, x) ==
  (CHOOSE i \in 1 .. Len(list) :
      list[i] = x /\ \A j \in 1 .. (i - 1) : list[j] # x) - 1

Elems(list) == {list[i] : i \in 1 .. Len(list)}

SetMin(S) == CHOOSE x \in S : \A y \in S : x <= y
SetMax(S) == CHOOSE x \in S : \A y \in S : x >= y

RECURSIVE SortedDescending(_)
SortedDescending(S) ==
  IF S = {} THEN <<>>
  ELSE <<SetMax(S)>> \o SortedDescending(S \ {SetMax(S)})

\* sorted(s) of a Python set of integers.
RECURSIVE sorted(_)
sorted(S) ==
  IF S = {} THEN <<>>
  ELSE <<SetMin(S)>> \o sorted(S \ {SetMin(S)})

\* ------------------------------------------------ make_type_lookup_tables
AtomsOf(m) == {m.atoms[k] : k \in 1 .. Len(m.atoms)}
BondTypesOf(m) == {m.bonds[k][3] : k \in 1 .. Len(m.bonds)}

\* A loop that overwrites the set with each molecule's types.
LastAtomTypes(mols, k) ==
  IF k = 0 THEN {} ELSE AtomsOf(mols[k])

\* atom_types after the first k iterations of the loop over mols.
RECURSIVE ObservedAtomTypes(_, _)
ObservedAtomTypes(mols, k) ==
  IF k = 0 THEN {}
  ELSE ObservedAtomTypes(mols, k - 1) \cup AtomsOf(mols[k])

\* bond_types after the first k iterations of the loop over mols.
RECURSIVE ObservedBondTypes(_, _)
ObservedBondTypes(mols, k) ==
  IF k = 0 THEN {}
  ELSE ObservedBondTypes(mols, k - 1) \cup BondTypesOf(mols[k])

make_type_lookup_tables(mols) ==
  <<sorted(ObservedAtomTypes(mols, Len(mols))),
    sorted(ObservedBondTypes(mols, Len(mols)))>>

\* ------------------------------------------------------ convert_mol_to_dict
\* The loop over mol.GetBonds(): two directed rows per bond, [a, b] then
\* [b, a].
RECURSIVE BondRowsOneWay(_)
BondRowsOneWay(bonds) ==
  IF bonds = <<>> THEN <<>>
  ELSE <<<<Head(bonds)[1], Head(bonds)[2]>>,
         <<Head(bonds)[1], Head(bonds)[2]>>>> \o BondRowsOneWay(Tail(bonds))

RECURSIVE BondRows(_)
BondRows(bonds) ==
  IF bonds = <<>> THEN <<>>
  ELSE <<<<Head(bonds)[1], Head(bonds)[2]>>,
         <<Head(bonds)[2], Head(bonds)[1]>>>> \o BondRows(Tail(bonds))

\* The same loop: edge_type gets b_type twice per bond.
RECURSIVE BondEdgeTypes(_)
BondEdgeTypes(bonds) ==
  IF bonds = <<>> THEN <<>>
  ELSE <<Head(bonds)[3], Head(bonds)[3]>> \o BondEdgeTypes(Tail(bonds))

\* Row order of np.lexsort((connectivity[:, 1], connectivity[:, 0])): the
\* last key, column 0, is the primary one.
RowLess(r1, r2) == r1[1] < r2[1] \/ (r1[1] = r2[1] /\ r1[2] < r2[2])

FirstColumnLess(r1, r2) == r1[1] < r2[1]

\* Stable insertion of row index i into the sorted index sequence inds.
RECURSIVE InsertIndex(_, _, _)
InsertIndex(inds, i, rows) ==
  IF inds = <<>> THEN <<i>>
  ELSE IF RowLess(rows[i], rows[Head(inds)]) THEN <<i>> \o inds
  ELSE <<Head(inds)>> \o InsertIndex(Tail(inds), i, rows)

RECURSIVE InsertIndexFirstColumn(_, _, _)
InsertIndexFirstColumn(inds, i, rows) ==
  IF inds = <<>> THEN <<i>>
  ELSE IF FirstColumnLess(rows[i], rows[Head(inds)]) THEN <<i>> \o inds
  ELSE <<Head(inds)>> \o InsertIndexFirstColumn(Tail(inds), i, rows)

RECURSIVE SortIndices(_, _)
SortIndices(rows, k) ==
  IF k = 0 THEN <<>> ELSE InsertIndex(SortIndices(rows, k - 1), k, rows)

RECURSIVE SortIndicesFirstColumn(_, _)
SortIndicesFirstColumn(rows, k) ==
  IF k = 0 THEN <<>>
  ELSE InsertIndexFirstColumn(SortIndicesFirstColumn(rows, k - 1), k, rows)

\* A stable sort on the first column alone.
lexsortFirstColumn(rows) == SortIndicesFirstColumn(rows, Len(rows))

\* inds = np.lexsort(...), as 1-based positions into rows.
lexsort(rows) == SortIndices(rows, Len(rows))

\* connectivity[inds, :]
Take(rows, inds) == [i \in 1 .. Len(inds) |-> rows[inds[i]]]

\* connectivity.max()
ArrayMax(rows) ==
  SetMax({rows[i][1] : i \in 1 .. Len(rows)} \cup
         {rows[i][2] : i \in 1 .. Len(rows)})

\* np.array(connectivity): a list of rows becomes an (n, 2) array, the empty
\* list an array of shape (0,).
np_array(rows) ==
  [rows |-> rows,
   shape |-> IF rows = <<>> THEN <<0>> ELSE <<Len(rows), 2>>]

\* connectivity.size
Size(array) ==
  IF Len(array.shape) = 1 THEN array.shape[1]
  ELSE array.shape[1] * array.shape[2]

\* The array np.array([]) leaves when it is not replaced.
EmptyList == [rows |-> <<>>, shape |-> <<0>>]

\* np.zeros((0, 2))
np_zeros_0_2 == [rows |-> <<>>, shape |-> <<0, 2>>]

\* The outcome of a call: the returned dict, or the exception raised.
NoResult == [kind |-> "none"]
Raise(e) == [kind |-> e]
Return(d) == [kind |-> "record", value |-> d]

\* The guard never fires.
LastAtomCheckSkipped(array, n_atom) == FALSE

\* connectivity.max() != len(atom_type) - 1
LastAtomCheck(array, n_atom) == ArrayMax(array.rows) # n_atom - 1

convert_mol_to_dict(m, atypes, btypes) ==
  LET atom_type == m.atoms
      rows == BondRows(m.bonds)
      edge_type == BondEdgeTypes(m.bonds)
  IN
  IF \E k \in 1 .. Len(atom_type) : ~Contains(atypes, atom_type[k])
  THEN Raise("ValueError: x is not in list")
  ELSE IF \E k \in 1 .. Len(edge_type) : ~Contains(btypes, edge_type[k])
  THEN Raise("ValueError: x is not in list")
  ELSE
    LET atom_type_id ==
          [k \in 1 .. Len(atom_type) |-> ListIndex(atypes, atom_type[k])]
        edge_type_id ==
          [k \in 1 .. Len(edge_type) |-> ListIndex(btypes, edge_type[k])]
        unsorted == np_array(rows)
        connectivity ==
          IF Size(unsorted) > 0
          THEN [unsorted EXCEPT !.rows = Take(rows, lexsort(rows))]
          ELSE np_zeros_0_2
    IN
    IF Size(unsorted) > 0 /\ LastAtomCheck(connectivity, Len(atom_type))
    THEN \* convert_nx_to_smiles and graph are names the notebook never
         \* defines: evaluating the call raises before the ValueError is
         \* built.
         Raise("NameError: name 'convert_nx_to_smiles' is not defined")
    ELSE Return([n_atom |-> Len(atom_type),
                 n_bond |-> Len(edge_type),
                 atom |-> atom_type_id,
                 bond |-> edge_type_id,
                 connectivity |-> connectivity])

\* ------------------------------------------------------------- the corpus
\* Rows of the data frame: the molecule Chem.AddHs(Chem.MolFromSmiles(...))
\* of a SMILES string, with the two property columns (in integer units).
Methane == [atoms |-> <<6, 1, 1, 1, 1>>,
            bonds |-> <<<<0, 1, SINGLE>>, <<0, 2, SINGLE>>,
                        <<0, 3, SINGLE>>, <<0, 4, SINGLE>>>>]
Formaldehyde == [atoms |-> <<6, 8, 1, 1>>,
                 bonds |-> <<<<0, 1, DOUBLE>>, <<0, 2, SINGLE>>,
                             <<0, 3, SINGLE>>>>]
HydrogenCyanide == [atoms |-> <<6, 7, 1>>,
                    bonds |-> <<<<0, 1, TRIPLE>>, <<0, 2, SINGLE>>>>]
Helium == [atoms |-> <<2>>, bonds |-> <<>>]
\* "[He].O=O": the unbonded atom comes first.
HeliumOxygen == [atoms |-> <<2, 8, 8>>, bonds |-> <<<<1, 2, DOUBLE>>>>]
\* "O=O.[He]": the unbonded atom comes last.
OxygenHelium == [atoms |-> <<8, 8, 2>>, bonds |-> <<<<0, 1, DOUBLE>>>>]

CorpusRows ==
  {[mol |-> Methane, u0_atom |-> -17, bandgap |-> 10],
   [mol |-> Formaldehyde, u0_atom |-> -15, bandgap |-> 6],
   [mol |-> HydrogenCyanide, u0_atom |-> -12, bandgap |-> 8],
   [mol |-> Helium, u0_atom |-> 0, bandgap |-> 20],
   [mol |-> HeliumOxygen, u0_atom |-> -4, bandgap |-> 11],
   [mol |-> OxygenHelium, u0_atom |-> -5, bandgap |-> 12]}

Corpora(lo, hi) == UNION {[1 .. n -> CorpusRows] : n \in lo .. hi}

\* data['mol']
MolColumn(frame) == [i \in 1 .. Len(frame) |-> frame[i].mol]

PartitionNames == <<"train", "valid", "test">>

NoFiles == [n \in {"train", "valid", "test"} |-> <<>>]

\* ----------------------------------------- one call of the vocabulary builder
InitVocab ==
  /\ pc = "call"
  /\ data \in Corpora(0, MaxCorpus)
  /\ atom_types = <<>> /\ bond_types = <<>>
  /\ mol = Methane /\ example = NoResult /\ dict = <<>>
  /\ train_data = <<>> /\ valid_data = <<>> /\ test_data = <<>>
  /\ files = NoFiles /\ part = 0

MakeTables ==
  /\ pc = "call"
  /\ atom_types' = make_type_lookup_tables(MolColumn(data))[1]
  /\ bond_types' = make_type_lookup_tables(MolColumn(data))[2]
  /\ pc' = "returned"
  /\ UNCHANGED <<data, mol, example, dict, train_data, valid_data,
                 test_data, files, part>>

NextVocab == MakeTables

SpecVocab == InitVocab /\ [][NextVocab]_vars

\* ------------------------------------------- one call of the record encoder
\* The vocabularies a call can be given: ascending, duplicate-free lists.
Vocabularies(S) == {sorted(T) : T \in SUBSET S}

InitEnc ==
  /\ pc = "call"
  /\ \E n \in 1 .. MaxAtoms : \E k \in 0 .. MaxBonds :
       \E as \in [1 .. n -> Elements] : \E bs \in BondSeqs(n, k) :
          mol = [atoms |-> as, bonds |-> bs]
  /\ atom_types \in Vocabularies(Elements)
  /\ bond_types \in Vocabularies(BondCats)
  /\ example = NoResult
  /\ data = <<>> /\ dict = <<>>
  /\ train_data = <<>> /\ valid_data = <<>> /\ test_data = <<>>
  /\ files = NoFiles /\ part = 0

Convert ==
  /\ pc = "call"
  /\ example' = convert_mol_to_dict(mol, atom_types, bond_types)
  /\ pc' = "returned"
  /\ UNCHANGED <<data, atom_types, bond_types, mol, dict,
                 train_data, valid_data, test_data, files, part>>

NextEnc == Convert

SpecEnc == InitEnc /\ [][NextEnc]_vars

\* ---------------------------------------------------- train_test_split
\* n_train = floor(train_size * n_samples) with train_size = 0.9
TrainCount(n) == (9 * n) \div 10

\* n_test = n_samples - n_train
TestCount(n) == n - TrainCount(n)

\* A permutation of the rows: every row exactly once.
Shuffles(rows) ==
  {p \in [1 .. Len(rows) -> Elems(rows)] :
     \A i \in 1 .. Len(rows) : \A j \in 1 .. Len(rows) :
        i # j => p[i] # p[j]}

\* The test rows are the first n_test rows of the permutation.
TestPart(p) == SubSeq(p, 1, TestCount(Len(p)))

\* A train part that starts one row early.
TrainPartOffByOne(p) == SubSeq(p, TestCount(Len(p)), Len(p))

\* The train rows are the n_train rows after them.
TrainPart(p) == SubSeq(p, TestCount(Len(p)) + 1, Len(p))

\* -------------------------------------------------------- make_tfrecord
RECURSIVE Flatten(_)
Flatten(rows) ==
  IF rows = <<>> THEN <<>> ELSE Head(rows) \o Flatten(Tail(rows))

\* One feature per key of the record: a scalar as a one-element list, a list
\* as it is, the connectivity array flattened row by row.
make_tfrecord(record) ==
  [k \in DOMAIN record |->
     IF k = "connectivity" THEN Flatten(record[k].rows)
     ELSE IF k \in {"atom", "bond"} THEN record[k]
     ELSE <<record[k]>>]

\* ------------------------------------------------------------ the notebook
\* The rows are named by their position in data (the index of the frame).
Init ==
  /\ pc = "cell5"
  /\ data \in Corpora(1, MaxCorpus)
  /\ atom_types = <<>> /\ bond_types = <<>>
  /\ mol = Methane /\ example = NoResult /\ dict = <<>>
  /\ train_data = <<>> /\ valid_data = <<>> /\ test_data = <<>>
  /\ files = NoFiles /\ part = 0

\* atom_types, bond_types = make_type_lookup_tables(data['mol'])
Cell5 ==
  /\ pc = "cell5"
  /\ atom_types' = make_type_lookup_tables(MolColumn(data))[1]
  /\ bond_types' = make_type_lookup_tables(MolColumn(data))[2]
  /\ pc' = "cell7"
  /\ UNCHANGED <<data, mol, example, dict, train_data, valid_data,
                 test_data, files, part>>

\* convert_mol_to_dict(Chem.AddHs(Chem.MolFromSmiles('C')), ...)
Cell7 ==
  /\ pc = "cell7"
  /\ example' = convert_mol_to_dict(mol, atom_types, bond_types)
  /\ pc' = IF example'.kind = "record" THEN "cell8" ELSE "aborted"
  /\ UNCHANGED <<data, atom_types, bond_types, mol, dict, train_data,
                 valid_data, test_data, files, part>>

\* Every exception is swallowed.
ApplyNeverRaises(results) == FALSE

\* Series.apply raises what the first failing call raises.
ApplyRaises(results) ==
  \E i \in 1 .. Len(results) : results[i].kind # "record"

\* data['dict'] = data['mol'].apply(lambda x: convert_mol_to_dict(...))
Cell8 ==
  LET results == [i \in 1 .. Len(data) |->
                    convert_mol_to_dict(data[i].mol, atom_types, bond_types)]
  IN
  /\ pc = "cell8"
  /\ IF ApplyRaises(results)
     THEN pc' = "aborted" /\ dict' = dict
     ELSE /\ pc' = "cell9"
          /\ dict' = [i \in 1 .. Len(data) |->
                        IF results[i].kind = "record"
                        THEN results[i].value ELSE <<>>]
  /\ UNCHANGED <<data, atom_types, bond_types, mol, example, train_data,
                 valid_data, test_data, files, part>>

\* make_tfrecord(data['dict'].iloc[0]): displayed, nothing is kept.
Cell9 ==
  /\ pc = "cell9"
  /\ pc' = "cell10"
  /\ UNCHANGED <<data, atom_types, bond_types, mol, example, dict,
                 train_data, valid_data, test_data, files, part>>

\* train_data, test_data = train_test_split(data, shuffle=True, train_size=0.9)
Cell10 ==
  /\ pc = "cell10"
  /\ IF TrainCount(Len(data)) = 0
     THEN \* ValueError: the resulting train set will be empty
          pc' = "aborted" /\ UNCHANGED <<train_data, test_data>>
     ELSE /\ \E p \in Shuffles([i \in 1 .. Len(data) |-> i]) :
               /\ train_data' = TrainPart(p)
               /\ test_data' = TestPart(p)
          /\ pc' = "cell11"
  /\ UNCHANGED <<data, atom_types, bond_types, mol, example, dict,
                 valid_data, files, part>>

\* train_data, valid_data = train_test_split(train_data, train_size=0.9)
Cell11 ==
  /\ pc = "cell11"
  /\ IF TrainCount(Len(train_data)) = 0
     THEN pc' = "aborted" /\ UNCHANGED <<train_data, valid_data>>
     ELSE /\ \E p \in Shuffles(train_data) :
               /\ train_data' = TrainPart(p)
               /\ valid_data' = TestPart(p)
          /\ pc' = "cell12"
  /\ UNCHANGED <<data, atom_types, bond_types, mol, example, dict,
                 test_data, files, part>>

\* zip(['train', 'valid', 'test'], [train_data, valid_data, test_data])
Dataset(n) ==
  IF n = 1 THEN train_data ELSE IF n = 2 THEN valid_data ELSE test_data

\* The next turn of the outer loop: the file of the next partition is opened
\* (and so emptied); after the third one the cell is done.
Cell12NextFile ==
  /\ pc = "cell12"
  /\ IF part = 0 THEN TRUE
     ELSE Len(files[PartitionNames[part]]) = Len(Dataset(part))
  /\ IF part = 3
     THEN pc' = "done" /\ UNCHANGED <<part, files>>
     ELSE /\ part' = part + 1
          /\ files' = [files EXCEPT ![PartitionNames[part + 1]] = <<>>]
          /\ pc' = pc
  /\ UNCHANGED <<data, atom_types, bond_types, mol, example, dict,
                 train_data, valid_data, test_data>>

\* One turn of the inner loop: the two properties are stored in the row's
\* dict, which is then serialised and written.
Cell12Write ==
  /\ pc = "cell12"
  /\ part \in 1 .. 3
  /\ Len(files[PartitionNames[part]]) < Len(Dataset(part))
  /\ LET row == Dataset(part)[Len(files[PartitionNames[part]]) + 1]
         entry == data[row]
         record == [k \in DOMAIN dict[row] \cup {"u0_atom", "bandgap"} |->
                      IF k = "u0_atom" THEN entry.u0_atom
                      ELSE IF k = "bandgap" THEN entry.bandgap
                      ELSE dict[row][k]]
     IN /\ dict' = [dict EXCEPT ![row] = record]
        /\ files' = [files EXCEPT ![PartitionNames[part]] =
                                     Append(@, make_tfrecord(record))]
  /\ UNCHANGED <<pc, data, atom_types, bond_types, mol, example,
                 train_data, valid_data, test_data, part>>

Next ==
  \/ Cell5
  \/ Cell7
  \/ Cell8
  \/ Cell9
  \/ Cell10
  \/ Cell11
  \/ Cell12NextFile
  \/ Cell12Write

Spec == Init /\ [][Next]_vars

\* ------------------------------------------------ properties of the encoder
Returned == pc = "returned"
IsRecord == example.kind = "record"
Rec == example.value
Conn == example.value.connectivity.rows
HasBonds == Len(mol.bonds) > 0
InVocabulary ==
  /\ \A k \in 1 .. Len(mol.atoms) : Contains(atom_types, mol.atoms[k])
  /\ \A k \in 1 .. Len(mol.bonds) : Contains(bond_types, mol.bonds[k][3])
Bonded(a) ==
  \E k \in 1 .. Len(mol.bonds) : mol.bonds[k][1] = a \/ mol.bonds[k][2] = a
\* list[i] of a Python list is x.
PyItemIs(list, i, x) == i \in 0 .. (Len(list) - 1) /\ list[i + 1] = x

\* C1: in a returned record of a molecule with bonds, bond[i] is the
\* vocabulary index of the category of the undirected bond whose endpoints
\* are row i of the sorted connectivity.
C1_BondFollowsConnectivity ==
  (Returned /\ IsRecord /\ HasBonds) =>
    \A i \in 1 .. Len(Conn) :
      \E k \in 1 .. Len(mol.bonds) :
        /\ {mol.bonds[k][1], mol.bonds[k][2]} =
             {Conn[i][1], Conn[i][2]}
        /\ i \in 1 .. Len(Rec.bond)
        /\ PyItemIs(bond_types, Rec.bond[i], mol.bonds[k][3])

\* C2: the connectivity rows of every returned record are in lexicographic
\* order, by source and then by target.
C2_ConnectivitySorted ==
  (Returned /\ IsRecord) =>
    \A i \in 1 .. (Len(Conn) - 1) :
      /\ Conn[i][1] <= Conn[i + 1][1]
      /\ Conn[i][1] = Conn[i + 1][1] =>
           Conn[i][2] <= Conn[i + 1][2]

\* A record whose rows the sort had to reorder.
C2_Witness ==
  /\ Returned /\ IsRecord
  /\ Len(mol.bonds) > 1
  /\ Conn # BondRows(mol.bonds)

\* C3: a molecule with a bond whose largest connected atom index is not
\* n_atom - 1 gets no record but the ValueError "Problem with unconnected
\* atoms for <smiles>".
C3_UnconnectedRaisesValueError ==
  (Returned /\ HasBonds /\ InVocabulary /\ ~Bonded(Len(mol.atoms) - 1)) =>
    example.kind = "ValueError: Problem with unconnected atoms"

\* C4 as claimed: every atom of a multi-atom molecule occurs in the
\* connectivity of its returned record.
C4_EveryAtomBonded ==
  (Returned /\ IsRecord /\ Rec.n_atom > 1) =>
    \A a \in 0 .. (Rec.n_atom - 1) :
      \E i \in 1 .. Len(Conn) :
        Conn[i][1] = a \/ Conn[i][2] = a

\* C4 as amended: a molecule with bonds whose highest-indexed atom is in no
\* bond gets no record; every returned record with bonds has atom index
\* n_atom - 1 in its connectivity.
C4_LastAtomBonded ==
  Returned =>
    /\ (HasBonds /\ ~Bonded(Len(mol.atoms) - 1)) => ~IsRecord
    /\ (IsRecord /\ Rec.n_bond > 0) =>
         \E i \in 1 .. Len(Conn) :
           \/ Conn[i][1] = Rec.n_atom - 1
           \/ Conn[i][2] = Rec.n_atom - 1

\* The last atom is in no bond and the call has failed.
C4_Witness ==
  /\ Returned /\ HasBonds /\ InVocabulary
  /\ ~Bonded(Len(mol.atoms) - 1)
  /\ ~IsRecord

\* C5: len(atom) = n_atom = the atom count, len(bond) = len(connectivity) =
\* n_bond = twice the number of bonds, and both directions of every bond are
\* rows of connectivity.
C5_Lengths ==
  (Returned /\ IsRecord) =>
    /\ Rec.n_atom = Len(mol.atoms)
    /\ Len(Rec.atom) = Rec.n_atom
    /\ Len(Rec.bond) = Rec.n_bond
    /\ Len(Conn) = Rec.n_bond
    /\ Rec.n_bond = 2 * Len(mol.bonds)
    /\ \A k \in 1 .. Len(mol.bonds) :
         /\ \E i \in 1 .. Len(Conn) :
              Conn[i] = <<mol.bonds[k][1], mol.bonds[k][2]>>
         /\ \E i \in 1 .. Len(Conn) :
              Conn[i] = <<mol.bonds[k][2], mol.bonds[k][1]>>

C5_Witness ==
  /\ Returned /\ IsRecord
  /\ Len(mol.bonds) = 2 /\ Rec.n_bond = 4 /\ Rec.n_atom = 3

\* C6: a molecule without bonds raises no validity error; its record has
\* n_bond = 0, an empty bond list and an empty connectivity of shape (0, 2).
C6_NoBonds ==
  (Returned /\ ~HasBonds) =>
    /\ example.kind \in {"record", "ValueError: x is not in list"}
    /\ InVocabulary =>
         /\ IsRecord
         /\ Rec.n_bond = 0
         /\ Rec.bond = <<>>
         /\ Conn = <<>>
         /\ Rec.connectivity.shape = <<0, 2>>

\* A record of several atoms and no bond.
C6_Witness ==
  /\ Returned /\ IsRecord /\ ~HasBonds
  /\ Rec.n_atom > 1

\* C8: atom_types[record.atom[k]] is the atomic number of atom k, every
\* entry of record.bond indexes the category of a bond of the molecule, and
\* a molecule with an element or a category absent from the vocabulary gets
\* the lookup error and no record.
C8_RoundTrip ==
  Returned =>
    /\ IsRecord =>
         /\ Len(Rec.atom) = Len(mol.atoms)
         /\ \A k \in 1 .. Len(mol.atoms) :
              PyItemIs(atom_types, Rec.atom[k], mol.atoms[k])
         /\ \A i \in 1 .. Len(Rec.bond) :
              \E k \in 1 .. Len(mol.bonds) :
                PyItemIs(bond_types, Rec.bond[i], mol.bonds[k][3])
    /\ ~InVocabulary => example.kind = "ValueError: x is not in list"

\* A record that uses the second entry of each vocabulary.
C8_Witness ==
  /\ Returned /\ IsRecord
  /\ \E k \in 1 .. Len(Rec.atom) : Rec.atom[k] = 1
  /\ \E i \in 1 .. Len(Rec.bond) : Rec.bond[i] = 1

\* ------------------------------------- properties of the vocabulary builder
StrictlyAscending(list) ==
  \A i \in 1 .. (Len(list) - 1) : list[i] < list[i + 1]

\* C7: both tables are strictly ascending, hold exactly the atomic numbers
\* and exactly the bond categories that occur in the corpus, and are empty
\* for the empty corpus.
C7_SortedVocabulary ==
  Returned =>
    /\ StrictlyAscending(atom_types)
    /\ StrictlyAscending(bond_types)
    /\ Elems(atom_types) =
         UNION {AtomsOf(data[i].mol) : i \in 1 .. Len(data)}
    /\ Elems(bond_types) =
         UNION {BondTypesOf(data[i].mol) : i \in 1 .. Len(data)}
    /\ data = <<>> => (atom_types = <<>> /\ bond_types = <<>>)

\* Several molecules whose types are met out of order and more than once.
C7_Witness ==
  /\ Returned
  /\ Len(data) >= 2
  /\ data[1].mol = Methane /\ data[2].mol = Formaldehyde
  /\ atom_types = <<1, 6, 8>>
  /\ bond_types = <<SINGLE, DOUBLE>>

\* ------------------------------------------------ properties of the notebook
Split == pc \in {"cell12", "done"}

\* C9: after the two splits the three partitions are pairwise disjoint and
\* hold every row exactly once; their sizes are those of two 90/10 splits,
\* which for 25,000 rows are 20,250, 2,250 and 2,500.
C9_Partition ==
  Split =>
    /\ Elems(train_data) \cap Elems(valid_data) = {}
    /\ Elems(train_data) \cap Elems(test_data) = {}
    /\ Elems(valid_data) \cap Elems(test_data) = {}
    /\ Elems(train_data) \cup Elems(valid_data) \cup Elems(test_data) =
         1 .. Len(data)
    /\ Len(train_data) + Len(valid_data) + Len(test_data) = Len(data)
    /\ Len(test_data) = TestCount(Len(data))
    /\ Len(valid_data) = TestCount(TrainCount(Len(data)))
    /\ Len(train_data) = TrainCount(TrainCount(Len(data)))
    /\ TrainCount(TrainCount(CorpusSize)) = 20250
    /\ TestCount(TrainCount(CorpusSize)) = 2250
    /\ TestCount(CorpusSize) = 2500

\* Both splits done on a shuffled corpus: the test row is not the last one.
C9_Witness ==
  /\ pc = "done"
  /\ Len(data) = MaxCorpus
  /\ test_data[1] # Len(data)
  /\ valid_data # <<>> /\ train_data # <<>>

EncodedFields == {"n_atom", "n_bond", "atom", "bond", "connectivity"}
WrittenFields == EncodedFields \cup {"u0_atom", "bandgap"}
Encoding(i) == convert_mol_to_dict(data[i].mol, atom_types, bond_types)
NothingWritten ==
  /\ files = NoFiles
  /\ train_data = <<>> /\ valid_data = <<>> /\ test_data = <<>>

\* C10: every molecule is encoded before any split or write; if the encoding
\* of one molecule fails the run aborts and nothing is ever written; if none
\* fails each file gets one record per row of its partition, with the five
\* encoded fields and the two properties.
C10_AllOrNothing ==
  /\ (pc \in {"cell9", "cell10", "cell11", "cell12", "done"}
        \/ ~NothingWritten) =>
       /\ Len(dict) = Len(data)
       /\ \A i \in 1 .. Len(data) :
            /\ Encoding(i).kind = "record"
            /\ \A k \in EncodedFields :
                 k \in DOMAIN dict[i] /\ dict[i][k] = Encoding(i).value[k]
  /\ (pc \notin {"cell5", "cell7", "cell8"}
        /\ \E i \in 1 .. Len(data) : Encoding(i).kind # "record") =>
       pc = "aborted" /\ NothingWritten /\ dict = <<>>
  /\ pc = "done" =>
       \A n \in 1 .. 3 :
         /\ Len(files[PartitionNames[n]]) = Len(Dataset(n))
         /\ \A k \in 1 .. Len(Dataset(n)) :
              LET blob == files[PartitionNames[n]][k]
                  row == Dataset(n)[k]
              IN /\ DOMAIN blob = WrittenFields
                 /\ blob.n_atom = <<Encoding(row).value.n_atom>>
                 /\ blob.n_bond = <<Encoding(row).value.n_bond>>
                 /\ blob.atom = Encoding(row).value.atom
                 /\ blob.bond = Encoding(row).value.bond
                 /\ blob.connectivity =
                      Flatten(Encoding(row).value.connectivity.rows)
                 /\ blob.u0_atom = <<data[row].u0_atom>>
                 /\ blob.bandgap = <<data[row].bandgap>>

\* The run has stopped in cell 8 on a molecule whose last atom is unbonded.
C10_Witness ==
  /\ pc = "aborted"
  /\ example.kind = "record"
  /\ \E i \in 1 .. Len(data) :
       /\ data[i].mol = OxygenHelium
       /\ Encoding(i).kind # "record"
       /\ i < Len(data)

====
